---- MODULE Spec2Model ----
(***************************************************************************)
(* Arithmetic on Iterator .size_hint() values (src/src/size_hint.rs).      *)
(*                                                                         *)
(* A SizeHint is the Rust tuple (usize, Option<usize>).  It is modelled as *)
(* the TLA+ tuple <<low, hi>> where hi is None (the empty sequence) or     *)
(* Some(v) (the one-element sequence <<v>>).  sh[1] is sh.0 and sh[2] is   *)
(* sh.1.  The machine word is shortened: usize_MAX stands for usize::MAX.  *)
(*                                                                         *)
(* The functions are pure; the state machine is a caller that holds two    *)
(* hints a and b, applies one of the six functions to them (with a scalar  *)
(* x where the function takes one), keeps the result in r, and may store   *)
(* the result back into a or b before the next application.                *)
(***************************************************************************)
EXTENDS Integers, Sequences, FiniteSets, TLC

\* Largest value of the modelled usize (usize::MAX of a shortened word).
usize_MAX == 7

usize == 0..usize_MAX

None == <<>>

Some(v) == <<v>>

Option_usize == {None} \cup {Some(v) : v \in usize}

SizeHint == usize \X Option_usize

\* ---- the std primitives the module calls ----

cmp_max(x, y) == IF y >= x THEN y ELSE x

cmp_min(x, y) == IF x <= y THEN x ELSE y

saturating_add_wrapping(x, y) == (x + y) % (usize_MAX + 1)

saturating_add(x, y) == IF x + y > usize_MAX THEN usize_MAX ELSE x + y

checked_add(x, y) == IF x + y > usize_MAX THEN None ELSE Some(x + y)

checked_mul(x, y) == IF x * y > usize_MAX THEN None ELSE Some(x * y)

unwrap_or(o, d) == IF o = None THEN d ELSE o[1]

\* The closure is a function on usize.
and_then(o, f) == IF o = None THEN None ELSE f[o[1]]

or(o, optb) == IF o = None THEN optb ELSE o

\* ---- the six functions of size_hint.rs ----

add_scalar_hiClamped(sh, x) ==
    LET low == saturating_add(sh[1], x)
        hi  == and_then(sh[2], [elt \in usize |-> Some(saturating_add(elt, x))])
    IN  <<low, hi>>

add_scalar(sh, x) ==
    LET low == saturating_add(sh[1], x)
        hi  == and_then(sh[2], [elt \in usize |-> checked_add(elt, x)])
    IN  <<low, hi>>

add_hiSaturating(a, b) ==
    LET min_ == unwrap_or(checked_add(a[1], b[1]), usize_MAX)
        max_ == IF a[2] # None /\ b[2] # None
                THEN Some(saturating_add(a[2][1], b[2][1]))
                ELSE None
    IN  <<min_, max_>>

add(a, b) ==
    LET min_ == unwrap_or(checked_add(a[1], b[1]), usize_MAX)
        max_ == IF a[2] # None /\ b[2] # None
                THEN checked_add(a[2][1], b[2][1])
                ELSE None
    IN  <<min_, max_>>

mul_scalar_noZeroCase(sh, x) ==
    LET low == unwrap_or(checked_mul(sh[1], x), usize_MAX)
        hi  == and_then(sh[2], [elt \in usize |-> checked_mul(elt, x)])
    IN  <<low, hi>>

mul_scalar(sh, x) ==
    LET low == unwrap_or(checked_mul(sh[1], x), usize_MAX)
        hi  == IF x = 0
               THEN Some(0)
               ELSE and_then(sh[2], [elt \in usize |-> checked_mul(elt, x)])
    IN  <<low, hi>>

mul_noZeroArm(a, b) ==
    LET low == unwrap_or(checked_mul(a[1], b[1]), usize_MAX)
        hi  == IF a[2] # None /\ b[2] # None
               THEN checked_mul(a[2][1], b[2][1])
               ELSE None
    IN  <<low, hi>>

mul_oneSidedZeroArm(a, b) ==
    LET low == unwrap_or(checked_mul(a[1], b[1]), usize_MAX)
        hi  == CASE a[2] # None /\ b[2] # None -> checked_mul(a[2][1], b[2][1])
                 [] a[2] = Some(0) /\ b[2] = None -> Some(0)
                 [] OTHER -> None
    IN  <<low, hi>>

mul_zeroArmAnySome(a, b) ==
    LET low == unwrap_or(checked_mul(a[1], b[1]), usize_MAX)
        hi  == CASE a[2] # None /\ b[2] # None -> checked_mul(a[2][1], b[2][1])
                 [] (a[2] # None /\ b[2] = None) \/ (a[2] = None /\ b[2] # None)
                        -> Some(0)
                 [] OTHER -> None
    IN  <<low, hi>>

mul(a, b) ==
    LET low == unwrap_or(checked_mul(a[1], b[1]), usize_MAX)
        hi  == CASE a[2] # None /\ b[2] # None -> checked_mul(a[2][1], b[2][1])
                 [] (a[2] = Some(0) /\ b[2] = None) \/ (a[2] = None /\ b[2] = Some(0))
                        -> Some(0)
                 [] OTHER -> None
    IN  <<low, hi>>

max_upperOr(a, b) ==
    LET lower == cmp_max(a[1], b[1])
        upper == IF a[2] # None /\ b[2] # None
                 THEN Some(cmp_max(a[2][1], b[2][1]))
                 ELSE or(a[2], b[2])
    IN  <<lower, upper>>

max_upperMin(a, b) ==
    LET lower == cmp_max(a[1], b[1])
        upper == IF a[2] # None /\ b[2] # None
                 THEN Some(cmp_min(a[2][1], b[2][1]))
                 ELSE None
    IN  <<lower, upper>>

max(a, b) ==
    LET lower == cmp_max(a[1], b[1])
        upper == IF a[2] # None /\ b[2] # None
                 THEN Some(cmp_max(a[2][1], b[2][1]))
                 ELSE None
    IN  <<lower, upper>>

min_upperNone(a, b) ==
    LET lower == cmp_min(a[1], b[1])
        upper == IF a[2] # None /\ b[2] # None
                 THEN Some(cmp_min(a[2][1], b[2][1]))
                 ELSE None
    IN  <<lower, upper>>

min(a, b) ==
    LET lower == cmp_min(a[1], b[1])
        upper == IF a[2] # None /\ b[2] # None
                 THEN Some(cmp_min(a[2][1], b[2][1]))
                 ELSE or(a[2], b[2])
    IN  <<lower, upper>>

\* ---- the caller ----

VARIABLES a, b, x, r, op

vars == <<a, b, x, r, op>>

\* "upper absent or lower <= upper"
Valid(sh) == sh[2] = None \/ sh[1] <= sh[2][1]

Init ==
    /\ a \in SizeHint
    /\ b \in SizeHint
    /\ x = 0
    /\ r = <<0, None>>
    /\ op = "none"

InitValid ==
    /\ Init
    /\ Valid(a)
    /\ Valid(b)

AddScalar ==
    \E v \in usize :
        /\ x' = v
        /\ r' = add_scalar(a, v)
        /\ op' = "add_scalar"
        /\ UNCHANGED <<a, b>>

Add ==
    /\ r' = add(a, b)
    /\ op' = "add"
    /\ UNCHANGED <<a, b, x>>

MulScalar ==
    \E v \in usize :
        /\ x' = v
        /\ r' = mul_scalar(a, v)
        /\ op' = "mul_scalar"
        /\ UNCHANGED <<a, b>>

Mul ==
    /\ r' = mul(a, b)
    /\ op' = "mul"
    /\ UNCHANGED <<a, b, x>>

Max ==
    /\ r' = max(a, b)
    /\ op' = "max"
    /\ UNCHANGED <<a, b, x>>

Min ==
    /\ r' = min(a, b)
    /\ op' = "min"
    /\ UNCHANGED <<a, b, x>>

\* The caller uses the last result as its first operand.
FeedA ==
    /\ op # "none"
    /\ a' = r
    /\ op' = "none"
    /\ UNCHANGED <<b, x, r>>

\* The caller uses the last result as its second operand.
FeedB ==
    /\ op # "none"
    /\ b' = r
    /\ op' = "none"
    /\ UNCHANGED <<a, x, r>>

Next ==
    \/ AddScalar
    \/ Add
    \/ MulScalar
    \/ Mul
    \/ Max
    \/ Min
    \/ FeedA
    \/ FeedB

Spec == Init /\ [][Next]_vars

SpecValid == InitValid /\ [][Next]_vars

TypeOK ==
    /\ a \in SizeHint
    /\ b \in SizeHint
    /\ x \in usize
    /\ op \in {"none", "add_scalar", "add", "mul_scalar", "mul", "max", "min"}

\* ---- the contracts of the six functions ----

\* C1: mul(a, b) = (L, U) where L is a.lower * b.lower, or usize_MAX when
\* that product exceeds usize_MAX, and U is Some(a.upper * b.upper) when both
\* uppers are present and the product fits, None when both are present and it
\* does not fit, Some(0) when one upper is Some(0) and the other is absent,
\* and None otherwise; mul((3, None), (0, Some(0))) = (0, Some(0)) and
\* mul((3, Some(4)), (MAX, None)) = (MAX, None).
C1_MulContract ==
    op = "mul" =>
        LET lp == a[1] * b[1]
            L  == IF lp <= usize_MAX THEN lp ELSE usize_MAX
            U  == IF a[2] # None /\ b[2] # None
                  THEN IF a[2][1] * b[2][1] <= usize_MAX
                       THEN Some(a[2][1] * b[2][1])
                       ELSE None
                  ELSE IF \/ (a[2] = Some(0) /\ b[2] = None)
                          \/ (b[2] = Some(0) /\ a[2] = None)
                       THEN Some(0)
                       ELSE None
        IN  /\ r = <<L, U>>
            /\ (a = <<3, None>> /\ b = <<0, Some(0)>>) => r = <<0, Some(0)>>
            /\ (a = <<3, Some(4)>> /\ b = <<usize_MAX, None>>)
                   => r = <<usize_MAX, None>>

C1_Witness ==
    /\ op = "mul"
    /\ a = <<3, None>>
    /\ b = <<0, Some(0)>>
    /\ r = <<0, Some(0)>>

\* C2: mul_scalar(p, x) = (L, U) where L is p.lower * x, or usize_MAX when
\* the product exceeds usize_MAX; U is Some(0) when x = 0 whatever p.upper is,
\* otherwise Some(p.upper * x) when p.upper is present and the product fits,
\* and None when p.upper is absent or the product does not fit.  Hence
\* mul_scalar(p, 0).upper = Some(0) and mul_scalar(p, 1) = p.
C2_MulScalarContract ==
    op = "mul_scalar" =>
        LET lp == a[1] * x
            L  == IF lp <= usize_MAX THEN lp ELSE usize_MAX
            U  == IF x = 0
                  THEN Some(0)
                  ELSE IF a[2] # None /\ a[2][1] * x <= usize_MAX
                       THEN Some(a[2][1] * x)
                       ELSE None
        IN  /\ r = <<L, U>>
            /\ x = 0 => r[2] = Some(0)
            /\ x = 1 => r = a

C2_Witness ==
    /\ op = "mul_scalar"
    /\ x = 0
    /\ a[2] = None
    /\ a[1] > 0
    /\ r = <<0, Some(0)>>

\* C3: add(a, b).lower is a.lower + b.lower when the sum fits and usize_MAX
\* when it overflows; add(a, b).upper is absent when either upper is absent,
\* otherwise Some(a.upper + b.upper) when the sum fits and absent when it
\* overflows.
C3_AddContract ==
    op = "add" =>
        /\ r[1] = IF a[1] + b[1] <= usize_MAX THEN a[1] + b[1] ELSE usize_MAX
        /\ (a[2] = None \/ b[2] = None) => r[2] = None
        /\ (a[2] # None /\ b[2] # None) =>
               r[2] = IF a[2][1] + b[2][1] <= usize_MAX
                      THEN Some(a[2][1] + b[2][1])
                      ELSE None

C3_Witness ==
    /\ op = "add"
    /\ a[2] # None
    /\ b[2] # None
    /\ a[1] + b[1] <= usize_MAX
    /\ a[1] > 0
    /\ b[1] > 0
    /\ a[2][1] + b[2][1] > usize_MAX
    /\ r = <<a[1] + b[1], None>>

\* C4: add_scalar(p, x).lower is p.lower + x clamped at usize_MAX (never
\* wrapped); the upper stays absent when p.upper is absent, is
\* Some(p.upper + x) when the sum fits, and is absent (not clamped) when the
\* sum overflows.  Hence add_scalar(p, 0) = p.
C4_AddScalarContract ==
    op = "add_scalar" =>
        /\ r[1] = IF a[1] + x <= usize_MAX THEN a[1] + x ELSE usize_MAX
        /\ a[2] = None => r[2] = None
        /\ (a[2] # None /\ a[2][1] + x <= usize_MAX) => r[2] = Some(a[2][1] + x)
        /\ (a[2] # None /\ a[2][1] + x > usize_MAX) => r[2] = None
        /\ x = 0 => r = a

C4_Witness ==
    /\ op = "add_scalar"
    /\ a[2] # None
    /\ a[1] + x > usize_MAX
    /\ a[2][1] + x > usize_MAX
    /\ r = <<usize_MAX, None>>

\* C5: min(a, b).lower is the smaller of the two lowers (so it is <= both);
\* min(a, b).upper is the smaller upper when both are present, the present
\* upper when exactly one is present, and absent only when both are absent.
C5_MinContract ==
    op = "min" =>
        /\ r[1] \in {a[1], b[1]}
        /\ r[1] <= a[1]
        /\ r[1] <= b[1]
        /\ (a[2] # None /\ b[2] # None) =>
               /\ r[2] \in {a[2], b[2]}
               /\ r[2][1] <= a[2][1]
               /\ r[2][1] <= b[2][1]
        /\ (a[2] # None /\ b[2] = None) => r[2] = a[2]
        /\ (a[2] = None /\ b[2] # None) => r[2] = b[2]
        /\ (r[2] = None) <=> (a[2] = None /\ b[2] = None)

C5_Witness ==
    /\ op = "min"
    /\ a[2] = None
    /\ b[2] # None
    /\ a[1] < b[1]
    /\ r = <<a[1], b[2]>>

\* C6: max(a, b).lower is the larger of the two lowers (so it is >= both);
\* max(a, b).upper is present only when both uppers are present, and is then
\* the larger of the two; it is absent when either upper is absent.
C6_MaxContract ==
    op = "max" =>
        /\ r[1] \in {a[1], b[1]}
        /\ r[1] >= a[1]
        /\ r[1] >= b[1]
        /\ (a[2] # None /\ b[2] # None) =>
               /\ r[2] \in {a[2], b[2]}
               /\ r[2][1] >= a[2][1]
               /\ r[2][1] >= b[2][1]
        /\ (a[2] = None \/ b[2] = None) => r[2] = None

C6_Witness ==
    /\ op = "max"
    /\ a[2] # None
    /\ b[2] = None
    /\ a[1] > b[1]
    /\ r = <<a[1], None>>

\* C7: add, mul, max and min are commutative on whole pairs: the result kept
\* for (a, b) equals the function applied to (b, a), lower and upper alike.
C7_Commutative ==
    /\ op = "add" => r = add(b, a)
    /\ op = "mul" => r = mul(b, a)
    /\ op = "max" => r = max(b, a)
    /\ op = "min" => r = min(b, a)

C7_Witness ==
    /\ op = "mul"
    /\ a[2] = None
    /\ b[2] = Some(0)
    /\ a[1] * b[1] > usize_MAX
    /\ r = <<usize_MAX, Some(0)>>

\* C8: every call returns a pair whose lower lies in 0..usize_MAX and whose
\* upper is absent or lies in 0..usize_MAX, for every input including
\* usize_MAX, absent uppers and pairs with lower > upper; and no component is
\* a wrapped value: a sum is never below its operands and a product of
\* non-zero factors is never below its factors.
C8_Total ==
    op # "none" =>
        /\ r \in SizeHint
        /\ op = "add_scalar" =>
               /\ r[1] >= a[1] /\ r[1] >= x
               /\ r[2] # None => (r[2][1] >= a[2][1] /\ r[2][1] >= x)
        /\ op = "add" =>
               /\ r[1] >= a[1] /\ r[1] >= b[1]
               /\ r[2] # None => (r[2][1] >= a[2][1] /\ r[2][1] >= b[2][1])
        /\ (op = "mul_scalar" /\ a[1] > 0 /\ x > 0) =>
               (r[1] >= a[1] /\ r[1] >= x)
        /\ (op = "mul_scalar" /\ x > 0 /\ r[2] # None /\ a[2][1] > 0) =>
               (r[2][1] >= a[2][1] /\ r[2][1] >= x)
        /\ (op = "mul" /\ a[1] > 0 /\ b[1] > 0) =>
               (r[1] >= a[1] /\ r[1] >= b[1])
        /\ (op = "mul" /\ r[2] # None /\ a[2] # None /\ b[2] # None
                /\ a[2][1] > 0 /\ b[2][1] > 0) =>
               (r[2][1] >= a[2][1] /\ r[2][1] >= b[2][1])

C8_Witness ==
    /\ op = "add_scalar"
    /\ a = <<usize_MAX, Some(0)>>
    /\ x = usize_MAX
    /\ r = <<usize_MAX, Some(usize_MAX)>>

\* C9: starting from hints that satisfy "upper absent or lower <= upper",
\* every hint the caller holds after any sequence of applications, results
\* fed back as operands included, satisfies it too.
C9_ValidPreserved ==
    /\ Valid(a)
    /\ Valid(b)
    /\ Valid(r)

C9_Witness ==
    /\ op = "mul_scalar"
    /\ a[2] # None
    /\ a[1] > 0
    /\ a[1] * x > usize_MAX
    /\ r = <<usize_MAX, None>>

\* C10: the result bounds the true combination of actual counts: for counts
\* n within a and m within b, the true value of n+x, n+m, n*x, n*m, max(n, m)
\* or min(n, m), clamped to usize_MAX, is >= the result's lower and, when the
\* result's upper is present, <= that upper.
C10_Sound ==
    LET Within(n, sh) == sh[1] <= n /\ (sh[2] # None => n <= sh[2][1])
        Clamp(v) == IF v > usize_MAX THEN usize_MAX ELSE v
    IN  \A n \in usize :
            Within(n, a) =>
                /\ op = "add_scalar" => Within(Clamp(n + x), r)
                /\ op = "mul_scalar" => Within(Clamp(n * x), r)
                /\ \A m \in usize :
                       Within(m, b) =>
                           /\ op = "add" => Within(Clamp(n + m), r)
                           /\ op = "mul" => Within(Clamp(n * m), r)
                           /\ op = "max" => Within(IF n >= m THEN n ELSE m, r)
                           /\ op = "min" => Within(IF n <= m THEN n ELSE m, r)

C10_Witness ==
    /\ op = "min"
    /\ a = <<1, Some(2)>>
    /\ b = <<3, None>>
    /\ r = <<1, Some(2)>>

====
